---- MODULE Spec2Model ----
(***************************************************************************)
(* A model of pyslog (packages/pyslog/logs.py): LoggingConfig.from_env and *)
(* the LoggerFactory lifecycle (configure / reset / get_default_logger /   *)
(* get_config) run by concurrent threads under the interpreter's           *)
(* one-bytecode-at-a-time interleaving.                                    *)
(*                                                                         *)
(* Python strings are sequences of one-character strings so that upper(),  *)
(* lower(), len() and emptiness are computed, not assumed.  Enum members   *)
(* (LogLevel, LogFormat, LogOutput) are TLA+ strings holding the member's  *)
(* value.  None is the record NoneVal.                                     *)
(***************************************************************************)
EXTENDS Integers, Sequences, FiniteSets, TLC

\* ------------------------------------------------------------------ bounds

\* Number of application threads calling into the factory.
NThreads == 2

\* Total number of calls (and environment changes) made after the import.
MaxCalls == 3

Threads == 1..NThreads

\* ----------------------------------------------------------------- strings

LowerChars == <<"a","b","c","d","e","f","g","h","i","j","k","l","m",
                "n","o","p","q","r","s","t","u","v","w","x","y","z">>

UpperChars == <<"A","B","C","D","E","F","G","H","I","J","K","L","M",
                "N","O","P","Q","R","S","T","U","V","W","X","Y","Z">>

\* str.upper() on one character
UpperChar(c) ==
    IF \E i \in DOMAIN LowerChars : LowerChars[i] = c
    THEN UpperChars[CHOOSE i \in DOMAIN LowerChars : LowerChars[i] = c]
    ELSE c

\* str.lower() on one character
LowerChar(c) ==
    IF \E i \in DOMAIN UpperChars : UpperChars[i] = c
    THEN LowerChars[CHOOSE i \in DOMAIN UpperChars : UpperChars[i] = c]
    ELSE c

\* Mutant of Upper: the text is left as written.
UpperSkipped(s) == s

Upper(s) == [i \in DOMAIN s |-> UpperChar(s[i])]

\* Mutant of Lower: the text is left as written.
LowerSkipped(s) == s

Lower(s) == [i \in DOMAIN s |-> LowerChar(s[i])]

\* The string literals of the source, spelled out.
S_DEBUG    == <<"D","E","B","U","G">>
S_INFO     == <<"I","N","F","O">>
S_WARNING  == <<"W","A","R","N","I","N","G">>
S_ERROR    == <<"E","R","R","O","R">>
S_CRITICAL == <<"C","R","I","T","I","C","A","L">>
S_console  == <<"c","o","n","s","o","l","e">>
S_json     == <<"j","s","o","n">>
S_stdout   == <<"s","t","d","o","u","t">>
S_file     == <<"f","i","l","e">>
S_app_log  == <<"a","p","p",".","l","o","g">>
S_false    == <<"f","a","l","s","e">>
S_true     == <<"t","r","u","e">>
S_one      == <<"1">>
S_yes      == <<"y","e","s">>
S_logs     == <<"l","o","g","s">>
S_NONE     == <<"N","O","N","E">>

NoneVal == [none |-> TRUE]

\* ------------------------------------------------------------------- enums

\* class LogLevel(str, Enum): value lookup, raising ValueError otherwise
LogLevel(s) ==
    IF s = S_CRITICAL THEN [ok |-> TRUE, member |-> "CRITICAL"]
    ELSE IF s = S_ERROR THEN [ok |-> TRUE, member |-> "ERROR"]
    ELSE IF s = S_WARNING THEN [ok |-> TRUE, member |-> "WARNING"]
    ELSE IF s = S_INFO THEN [ok |-> TRUE, member |-> "INFO"]
    ELSE IF s = S_DEBUG THEN [ok |-> TRUE, member |-> "DEBUG"]
    ELSE [ok |-> FALSE, member |-> "ValueError"]

\* class LogFormat(str, Enum)
LogFormat(s) ==
    IF s = S_console THEN [ok |-> TRUE, member |-> "console"]
    ELSE IF s = S_json THEN [ok |-> TRUE, member |-> "json"]
    ELSE [ok |-> FALSE, member |-> "ValueError"]

\* class LogOutput(str, Enum)
\* Mutant of LogOutput: an unknown value falls back to stdout.
LogOutputLenient(s) ==
    IF s = S_file THEN [ok |-> TRUE, member |-> "file"]
    ELSE [ok |-> TRUE, member |-> "stdout"]

LogOutput(s) ==
    IF s = S_stdout THEN [ok |-> TRUE, member |-> "stdout"]
    ELSE IF s = S_file THEN [ok |-> TRUE, member |-> "file"]
    ELSE [ok |-> FALSE, member |-> "ValueError"]

\* ------------------------------------------------------------ LoggingConfig

\* LOGGING_FILE_PATH may hold at most this many characters.
MaxPathLen == 4096

\* dict.get(key, default)
EnvGet(env, key, default) == IF key \in DOMAIN env THEN env[key] ELSE default

\* An exception leaving a call.
Raise(type, msg) == [ok |-> FALSE, exc |-> [type |-> type, msg |-> msg]]

\* LoggingConfig(level=..., ...): the dataclass constructor, which validates
\* nothing.
MkConfig(level, format, output, file_path, include_location, logger_name) ==
    [level |-> level, format |-> format, output |-> output,
     file_path |-> file_path, include_location |-> include_location,
     logger_name |-> logger_name]

\* Mutant of TooLong: a path of exactly the maximum length is refused.
TooLongInclusive(file_path) == Len(file_path) >= MaxPathLen

\* len(file_path) > 4096
TooLong(file_path) == Len(file_path) > MaxPathLen

\* Mutant of FromEnv: the logger name is checked first.
FromEnvNameFirst(env) ==
    LET level_str  == Upper(EnvGet(env, "LOGGING_LEVEL", S_DEBUG))
        level      == LogLevel(level_str)
        format_str == Lower(EnvGet(env, "LOGGING_FORMAT", S_console))
        log_format == LogFormat(format_str)
        output_str == Lower(EnvGet(env, "LOGGING_OUTPUT", S_stdout))
        output     == LogOutput(output_str)
        file_path  == EnvGet(env, "LOGGING_FILE_PATH", S_app_log)
        include_location_str ==
            Lower(EnvGet(env, "LOGGING_INCLUDE_LOCATION", S_false))
        include_location == include_location_str \in {S_true, S_one, S_yes}
        logger_name == EnvGet(env, "LOGGING_LOGGER_NAME", S_logs)
    IN  IF logger_name = <<>>
        THEN Raise("ValueError", "LOGGING_LOGGER_NAME must be a non-empty string")
        ELSE IF ~level.ok THEN Raise("ValueError", "Invalid LOGGING_LEVEL")
        ELSE IF ~log_format.ok THEN Raise("ValueError", "Invalid LOGGING_FORMAT")
        ELSE IF ~output.ok THEN Raise("ValueError", "Invalid LOGGING_OUTPUT")
        ELSE IF file_path = <<>>
             THEN Raise("ValueError", "LOGGING_FILE_PATH must be a non-empty string")
        ELSE IF TooLong(file_path)
             THEN Raise("ValueError", "LOGGING_FILE_PATH is too long")
        ELSE [ok |-> TRUE,
              cfg |-> MkConfig(level.member, log_format.member, output.member,
                               file_path, include_location, logger_name)]

\* LoggingConfig.from_env(env): the checks in the order of the source, the
\* first failing one raising.
FromEnv(env) ==
    LET level_str  == Upper(EnvGet(env, "LOGGING_LEVEL", S_DEBUG))
        level      == LogLevel(level_str)
        format_str == Lower(EnvGet(env, "LOGGING_FORMAT", S_console))
        log_format == LogFormat(format_str)
        output_str == Lower(EnvGet(env, "LOGGING_OUTPUT", S_stdout))
        output     == LogOutput(output_str)
        file_path  == EnvGet(env, "LOGGING_FILE_PATH", S_app_log)
        include_location_str ==
            Lower(EnvGet(env, "LOGGING_INCLUDE_LOCATION", S_false))
        include_location == include_location_str \in {S_true, S_one, S_yes}
        logger_name == EnvGet(env, "LOGGING_LOGGER_NAME", S_logs)
    IN  IF ~level.ok THEN Raise("ValueError", "Invalid LOGGING_LEVEL")
        ELSE IF ~log_format.ok THEN Raise("ValueError", "Invalid LOGGING_FORMAT")
        ELSE IF ~output.ok THEN Raise("ValueError", "Invalid LOGGING_OUTPUT")
        ELSE IF file_path = <<>>
             THEN Raise("ValueError", "LOGGING_FILE_PATH must be a non-empty string")
        ELSE IF TooLong(file_path)
             THEN Raise("ValueError", "LOGGING_FILE_PATH is too long")
        ELSE IF logger_name = <<>>
             THEN Raise("ValueError", "LOGGING_LOGGER_NAME must be a non-empty string")
        ELSE [ok |-> TRUE,
              cfg |-> MkConfig(level.member, log_format.member, output.member,
                               file_path, include_location, logger_name)]

\* ------------------------------------------------- environment and files

S_env_shared == <<".","e","n","v",".","s","h","a","r","e","d">>
S_env        == <<".","e","n","v">>
S_env_dot    == <<".","e","n","v",".">>
S_dev        == <<"d","e","v">>
S_dot        == <<".">>
S_logdir     == <<"l","o","g","d","i","r">>
S_ro_x_log   == <<"r","o","/","x",".","l","o","g">>
S_ro         == <<"r","o">>
S_out_log    == <<"o","u","t",".","l","o","g">>
S_app        == <<"a","p","p">>

EmptyEnv == [k \in {} |-> <<>>]

\* What the .env files of the working directory hold (the package never
\* writes them): .env sets LOGGING_INCLUDE_LOCATION=Yes, and .env.dev, the
\* file of the profile "dev", sets LOGGING_LOGGER_NAME=app.
DotEnvContent(path) ==
    IF path = S_env THEN [LOGGING_INCLUDE_LOCATION |-> <<"Y","e","s">>]
    ELSE IF path = S_env_dot \o S_dev THEN [LOGGING_LOGGER_NAME |-> S_app]
    ELSE EmptyEnv

\* The process environments the application runs the package under.
Envs ==
    { EmptyEnv,
      [LOGGING_LEVEL |-> <<"v","e","r","b","o","s","e">>],
      [LOGGING_LEVEL |-> <<"i","n","f","o">>, LOGGING_FORMAT |-> <<"J","S","O","N">>,
       LOGGING_OUTPUT |-> <<"F","i","l","e">>, LOGGING_FILE_PATH |-> S_logdir] }

\* os.path.exists / Path.exists
PathExists(files, p) == p \in DOMAIN files

\* Path.is_dir
IsDir(files, p) == PathExists(files, p) /\ files[p] \in {"dir", "rodir"}

\* Path.is_file
IsFile(files, p) == PathExists(files, p) /\ files[p] = "file"

\* Path.parent: everything before the last "/", or "." when there is none
Parent(p) ==
    LET slashes == {i \in DOMAIN p : p[i] = "/"}
    IN  IF slashes = {} THEN S_dot
        ELSE SubSeq(p, 1, (CHOOSE i \in slashes : \A j \in slashes : j <= i) - 1)

\* A directory new entries can be created in.
Writable(files, d) == d = S_dot \/ (PathExists(files, d) /\ files[d] = "dir")

\* Path.mkdir(parents=True, exist_ok=True): the file system afterwards, or
\* an OSError.
RECURSIVE Mkdir(_, _)
Mkdir(files, d) ==
    IF d = S_dot \/ IsDir(files, d) THEN [ok |-> TRUE, files |-> files]
    ELSE IF PathExists(files, d) THEN [ok |-> FALSE, files |-> files]
    ELSE LET up == Mkdir(files, Parent(d))
         IN  IF up.ok /\ Writable(up.files, Parent(d))
             THEN [ok |-> TRUE, files |-> (d :> "dir") @@ up.files]
             ELSE [ok |-> FALSE, files |-> up.files]

\* load_dotenv(path, override=False): keys already set keep their value
LoadDotenv(path, env) ==
    LET add == DotEnvContent(path)
    IN  [k \in DOMAIN env \cup DOMAIN add |->
            IF k \in DOMAIN env THEN env[k] ELSE add[k]]

\* LoggerFactory.load_environment_variables() with env=None: os.environ
\* after the .env files were loaded in priority order.
LoadEnvironmentVariables(env, files) ==
    LET e1 == IF PathExists(files, S_env_shared)
              THEN LoadDotenv(S_env_shared, env) ELSE env
        e2 == IF PathExists(files, S_env) THEN LoadDotenv(S_env, e1) ELSE e1
        profile == EnvGet(e2, "PROFILE", S_NONE)
        envpath == S_env_dot \o profile
    IN  IF profile # S_NONE /\ PathExists(files, envpath)
        THEN LoadDotenv(envpath, e2) ELSE e2

\* ------------------------------------------------------ backend wiring

\* log_level_map of _configure_structlog (the stdlib's numeric levels)
LogLevelMap ==
    [CRITICAL |-> 50, ERROR |-> 40, WARNING |-> 30, INFO |-> 20, DEBUG |-> 10]

\* list.insert(i, x) with a 0-based index i
ListInsert(s, i, x) == SubSeq(s, 1, i) \o <<x>> \o SubSeq(s, i + 1, Len(s))

\* The processor list _configure_structlog hands to structlog.configure
Processors(cfg) ==
    LET shared_processors ==
            << "merge_contextvars", "add_log_level", "add_logger_name",
               "PositionalArgumentsFormatter", "TimeStamper",
               "StackInfoRenderer", "format_exc_info", "UnicodeDecoder" >>
        located == IF cfg.include_location
                   THEN ListInsert(shared_processors, 3, "CallsiteParameterAdder")
                   ELSE shared_processors
        renderer == IF cfg.format = "json" THEN "JSONRenderer"
                    ELSE "ConsoleRenderer"
    IN  located \o <<renderer>>

\* structlog's global configuration after structlog.configure(...)
StructlogConfigure(cfg) ==
    [is_configured |-> TRUE, processors |-> Processors(cfg),
     logger_factory |-> "stdlib.LoggerFactory"]

\* structlog's global configuration after structlog.reset_defaults()
StructlogDefaults ==
    [is_configured |-> FALSE,
     processors |-> << "merge_contextvars", "add_log_level", "StackInfoRenderer",
                       "set_exc_info", "TimeStamper", "ConsoleRenderer" >>,
     logger_factory |-> "PrintLoggerFactory"]

\* A logger of the stdlib registry as logging.getLogger first creates it.
NewStdlibLogger == [level |-> 0, handlers |-> <<>>, propagate |-> TRUE]

\* The sink of _configure_structlog: the handler created for cfg and the
\* file system afterwards, or the exception raised.
OpenSink(cfg, files) ==
    IF cfg.output = "file"
    THEN LET log_path == cfg.file_path
             made == Mkdir(files, Parent(log_path))
         IN  IF PathExists(files, log_path) /\ IsDir(files, log_path)
             THEN Raise("ValueError", "is a directory, not a file") @@ [files |-> files]
             ELSE IF ~made.ok
             THEN Raise("RuntimeError", "Failed to create log file handler")
                     @@ [files |-> made.files]
             ELSE IF PathExists(made.files, log_path) /\ ~IsFile(made.files, log_path)
             THEN Raise("ValueError", "exists but is not a regular file")
                     @@ [files |-> made.files]
             ELSE IF ~PathExists(made.files, log_path)
                     /\ ~Writable(made.files, Parent(log_path))
             THEN Raise("RuntimeError", "Failed to create log file handler")
                     @@ [files |-> made.files]
             ELSE [ok |-> TRUE,
                   handler |-> [kind |-> "FileHandler", target |-> log_path,
                                open |-> TRUE],
                   files |-> (log_path :> "file") @@ made.files]
    ELSE [ok |-> TRUE,
          handler |-> [kind |-> "StreamHandler", target |-> S_stdout, open |-> TRUE],
          files |-> files]

\* structlog.get_logger(name): a lazy proxy bound to the name
GetStructlogLogger(name) == [name |-> name, bound |-> [k \in {} |-> <<>>]]

\* ------------------------------------------------------------------ state

\* Names of the stdlib loggers the configurations below use.
LoggerNames == {S_logs, S_app}

\* The LoggingConfig objects callers construct and pass to configure().
CfgConsole == MkConfig("INFO", "console", "stdout", S_app_log, FALSE, S_logs)
CfgFile    == MkConfig("DEBUG", "json", "file", S_out_log, TRUE, S_app)
CfgDir     == MkConfig("WARNING", "json", "file", S_logdir, FALSE, S_logs)
CfgDenied  == MkConfig("ERROR", "console", "file", S_ro_x_log, FALSE, S_app)

Configs == {CfgConsole, CfgFile, CfgDir, CfgDenied}

VARIABLES
    lock,            \* LoggerFactory._lock: 0 when free, else the holding thread
    configured,      \* LoggerFactory._configured
    config,          \* LoggerFactory._config
    configOwner,     \* the thread whose cfg argument is the object _config
                     \* refers to; 0 when no caller holds that object
    default_logger,  \* LoggerFactory._default_logger
    structlogCfg,    \* structlog's process-wide configuration
    loggers,         \* the stdlib registry: name -> level, handlers, propagate
    handlerObjs,     \* every logging.Handler created so far, by identity
    fs,              \* the file system: path -> "file" | "dir" | "rodir"
    environ,         \* os.environ
    imported,        \* the module-level code of logs.py has run
    pc,              \* where each thread stands in its current call
    op,              \* the public operation each thread is in or last ran
    arg,             \* its config argument
    cur,             \* configure's local variable config
    newHandler,      \* _configure_structlog's local variable handler
    result,          \* how each thread's last call ended
    calls,           \* calls and environment changes made so far
    snap,            \* history: the shared state when the lock was last taken
    nImplicit        \* history: implicit configure()s completed since the
                     \* factory was last reset

vars == << lock, configured, config, configOwner, default_logger, structlogCfg, loggers,
           handlerObjs, fs, environ, imported, pc, op, arg, cur, newHandler,
           result, calls, snap, nImplicit >>

factoryVars == << configured, config, configOwner, default_logger >>
backendVars == << structlogCfg, loggers, handlerObjs, fs >>
localVars   == << cur, newHandler >>
historyVars == << snap, nImplicit >>

NoResult == [status |-> "none", value |-> NoneVal]
Returned(v) == [status |-> "returned", value |-> v]
Raised(exc) == [status |-> "raised", value |-> exc]

\* What a thread saves of the shared state when it takes the lock.
Snapshot ==
    [configured |-> configured, config |-> config,
     default_logger |-> default_logger, structlogCfg |-> structlogCfg,
     loggers |-> loggers]

\* The class body of LoggerFactory has run; the module-level calls have not.
Init ==
    /\ lock = 0
    /\ configured = FALSE
    /\ config = NoneVal
    /\ configOwner = 0
    /\ default_logger = NoneVal
    /\ structlogCfg = StructlogDefaults
    /\ loggers = [n \in LoggerNames |-> NewStdlibLogger]
    /\ handlerObjs = <<>>
    /\ fs = (S_env :> "file") @@ (S_env_dot \o S_dev :> "file")
            @@ (S_logdir :> "dir") @@ (S_ro :> "rodir")
    /\ environ \in Envs
    /\ imported = FALSE
    /\ pc = [t \in Threads |-> IF t = 1 THEN "imp_loadenv" ELSE "idle"]
    /\ op = [t \in Threads |-> IF t = 1 THEN "import" ELSE "none"]
    /\ arg = [t \in Threads |-> NoneVal]
    /\ cur = [t \in Threads |-> NoneVal]
    /\ newHandler = [t \in Threads |-> 0]
    /\ result = [t \in Threads |-> NoResult]
    /\ calls = 0
    /\ snap = Snapshot
    /\ nImplicit = 0

\* ---------------------------------------------------------------- the lock

\* Mutant of CanAcquire: the lock is granted whether or not it is held.
CanAcquireAlways == TRUE

\* threading.Lock.acquire, entered by `with cls._lock`: granted only when
\* no thread holds the lock.
CanAcquire == lock = 0

\* The lock after `with cls._lock` is left by a return.
ReleaseOnReturn(t) == 0

\* Mutant of ReleaseOnException: acquire()/release() without try/finally,
\* so that an exception leaves the lock with the thread that raised.
LockKeptOnException(t) == t

\* The lock after `with cls._lock` is left by an exception.
ReleaseOnException(t) == 0

\* Mutant of StoreConfig: the held object is updated in place, one field
\* at a time, instead of being replaced.
StoreConfigFieldwise(old, new) ==
    IF old = NoneVal THEN new ELSE [old EXCEPT !.level = new.level]

\* `cls._config = config`: one store of a reference.
StoreConfig(old, new) == new

\* A call is over: its locals are gone.
EndCall(t, res) ==
    /\ pc' = [pc EXCEPT ![t] = "idle"]
    /\ result' = [result EXCEPT ![t] = res]
    /\ cur' = [cur EXCEPT ![t] = NoneVal]
    /\ newHandler' = [newHandler EXCEPT ![t] = 0]

Goto(t, label) == pc' = [pc EXCEPT ![t] = label]

\* ------------------------------------------------------------ module import

\* logs.py line 301: LoggerFactory.load_environment_variables(), run by the
\* importing thread; line 302, LoggerFactory.configure(), follows.
ImportLoadEnv ==
    /\ pc[1] = "imp_loadenv"
    /\ environ' = LoadEnvironmentVariables(environ, fs)
    /\ Goto(1, "cfg_acquire")
    /\ UNCHANGED << lock, factoryVars, backendVars, imported, op, arg,
                    localVars, result, calls, historyVars >>

\* ---------------------------------------------------------- calls, inputs

CanCall(t) == imported /\ pc[t] = "idle" /\ calls < MaxCalls

\* A thread calls LoggerFactory.configure(c); c = NoneVal is configure().
CallConfigure(t, c) ==
    /\ CanCall(t)
    /\ Goto(t, "cfg_acquire")
    /\ op' = [op EXCEPT ![t] = "configure"]
    /\ arg' = [arg EXCEPT ![t] = c]
    /\ result' = [result EXCEPT ![t] = NoResult]
    /\ calls' = calls + 1
    /\ UNCHANGED << lock, factoryVars, backendVars, environ, imported,
                    localVars, historyVars >>

\* A thread calls LoggerFactory.reset().
CallReset(t) ==
    /\ CanCall(t)
    /\ Goto(t, "rst_acquire")
    /\ op' = [op EXCEPT ![t] = "reset"]
    /\ arg' = [arg EXCEPT ![t] = NoneVal]
    /\ result' = [result EXCEPT ![t] = NoResult]
    /\ calls' = calls + 1
    /\ UNCHANGED << lock, factoryVars, backendVars, environ, imported,
                    localVars, historyVars >>

\* A thread calls LoggerFactory.get_default_logger().
CallGetDefaultLogger(t) ==
    /\ CanCall(t)
    /\ Goto(t, "gdl_check")
    /\ op' = [op EXCEPT ![t] = "get_default_logger"]
    /\ arg' = [arg EXCEPT ![t] = NoneVal]
    /\ result' = [result EXCEPT ![t] = NoResult]
    /\ calls' = calls + 1
    /\ UNCHANGED << lock, factoryVars, backendVars, environ, imported,
                    localVars, historyVars >>

\* LoggerFactory.get_config(): `return cls._config`, one load, no lock.
GetConfig(t) ==
    /\ CanCall(t)
    /\ op' = [op EXCEPT ![t] = "get_config"]
    /\ arg' = [arg EXCEPT ![t] = NoneVal]
    /\ result' = [result EXCEPT ![t] = Returned(config)]
    /\ calls' = calls + 1
    /\ UNCHANGED << lock, factoryVars, backendVars, environ, imported, pc,
                    localVars, historyVars >>

\* The application changes the process environment that from_env(None) reads.
SetEnv(e) ==
    /\ imported
    /\ calls < MaxCalls
    /\ e # environ
    /\ environ' = e
    /\ calls' = calls + 1
    /\ UNCHANGED << lock, factoryVars, backendVars, imported, pc, op, arg,
                    localVars, result, historyVars >>

\* ---------------------------------------------------------------- configure

\* `with cls._lock:` of configure
CfgAcquire(t) ==
    /\ pc[t] = "cfg_acquire"
    /\ CanAcquire
    /\ lock' = t
    /\ snap' = Snapshot
    /\ cur' = [cur EXCEPT ![t] = arg[t]]
    /\ Goto(t, IF arg[t] = NoneVal THEN "cfg_resolve" ELSE "cfg_store")
    /\ UNCHANGED << factoryVars, backendVars, environ, imported, op, arg,
                    newHandler, result, calls, nImplicit >>

\* config is None: load_environment_variables(), then from_env(None)
CfgResolve(t) ==
    /\ pc[t] = "cfg_resolve"
    /\ environ' = LoadEnvironmentVariables(environ, fs)
    /\ LET r == FromEnv(environ')
       IN  IF r.ok
           THEN /\ cur' = [cur EXCEPT ![t] = r.cfg]
                /\ Goto(t, "cfg_store")
                /\ UNCHANGED result
           ELSE /\ result' = [result EXCEPT ![t] = Raised(r.exc)]
                /\ Goto(t, "cfg_unwind")
                /\ UNCHANGED cur
    /\ UNCHANGED << lock, factoryVars, backendVars, imported, op, arg,
                    newHandler, calls, historyVars >>

\* Mutant of CfgStore: the configured flag is raised together with the
\* config, before the backend is wired.
CfgStoreSetsFlag(t) ==
    /\ pc[t] = "cfg_store"
    /\ config' = StoreConfig(config, cur[t])
    /\ configOwner' = IF arg[t] # NoneVal THEN t ELSE 0
    /\ configured' = TRUE
    /\ Goto(t, "cfg_structlog")
    /\ UNCHANGED << lock, default_logger, backendVars, environ,
                    imported, op, arg, localVars, result, calls, historyVars >>

\* cls._config = config
CfgStore(t) ==
    /\ pc[t] = "cfg_store"
    /\ config' = StoreConfig(config, cur[t])
    /\ configOwner' = IF arg[t] # NoneVal THEN t ELSE 0
    /\ Goto(t, "cfg_structlog")
    /\ UNCHANGED << lock, configured, default_logger, backendVars, environ,
                    imported, op, arg, localVars, result, calls, historyVars >>

\* _configure_structlog: structlog.configure(processors=...)
CfgStructlog(t) ==
    /\ pc[t] = "cfg_structlog"
    /\ structlogCfg' = StructlogConfigure(cur[t])
    /\ Goto(t, "cfg_setlevel")
    /\ UNCHANGED << lock, factoryVars, loggers, handlerObjs, fs, environ,
                    imported, op, arg, localVars, result, calls, historyVars >>

\* _configure_structlog: stdlib_logger.setLevel(log_level)
\* Mutant of CfgSetLevel: the old handlers are dropped before the sink is
\* made.
CfgSetLevelClears(t) ==
    /\ pc[t] = "cfg_setlevel"
    /\ loggers' = [loggers EXCEPT
                     ![cur[t].logger_name].level = LogLevelMap[cur[t].level],
                     ![cur[t].logger_name].handlers = <<>>]
    /\ Goto(t, "cfg_sink")
    /\ UNCHANGED << lock, factoryVars, structlogCfg, handlerObjs, fs, environ,
                    imported, op, arg, localVars, result, calls, historyVars >>

CfgSetLevel(t) ==
    /\ pc[t] = "cfg_setlevel"
    /\ loggers' = [loggers EXCEPT
                     ![cur[t].logger_name].level = LogLevelMap[cur[t].level]]
    /\ Goto(t, "cfg_sink")
    /\ UNCHANGED << lock, factoryVars, structlogCfg, handlerObjs, fs, environ,
                    imported, op, arg, localVars, result, calls, historyVars >>

\* _configure_structlog: the path checks and the handler's construction
CfgOpenSink(t) ==
    /\ pc[t] = "cfg_sink"
    /\ LET r == OpenSink(cur[t], fs)
       IN  /\ fs' = r.files
           /\ IF r.ok
              THEN /\ handlerObjs' = Append(handlerObjs, r.handler)
                   /\ newHandler' = [newHandler EXCEPT ![t] = Len(handlerObjs) + 1]
                   /\ Goto(t, "cfg_clear")
                   /\ UNCHANGED result
              ELSE /\ result' = [result EXCEPT ![t] = Raised(r.exc)]
                   /\ Goto(t, "cfg_unwind")
                   /\ UNCHANGED << handlerObjs, newHandler >>
    /\ UNCHANGED << lock, factoryVars, structlogCfg, loggers, environ, imported,
                    op, arg, cur, calls, historyVars >>

\* Mutant of CfgClear: the old handlers are not cleared.
CfgClearSkipped(t) ==
    /\ pc[t] = "cfg_clear"
    /\ Goto(t, "cfg_add")
    /\ UNCHANGED << lock, factoryVars, backendVars, environ, imported, op, arg,
                    localVars, result, calls, historyVars >>

\* _configure_structlog: stdlib_logger.handlers.clear()
CfgClear(t) ==
    /\ pc[t] = "cfg_clear"
    /\ loggers' = [loggers EXCEPT ![cur[t].logger_name].handlers = <<>>]
    /\ Goto(t, "cfg_add")
    /\ UNCHANGED << lock, factoryVars, structlogCfg, handlerObjs, fs, environ,
                    imported, op, arg, localVars, result, calls, historyVars >>

\* _configure_structlog: stdlib_logger.addHandler(handler)
CfgAddHandler(t) ==
    /\ pc[t] = "cfg_add"
    /\ loggers' = [loggers EXCEPT ![cur[t].logger_name].handlers =
                     IF \E i \in DOMAIN @ : @[i] = newHandler[t]
                     THEN @ ELSE Append(@, newHandler[t])]
    /\ Goto(t, "cfg_propagate")
    /\ UNCHANGED << lock, factoryVars, structlogCfg, handlerObjs, fs, environ,
                    imported, op, arg, localVars, result, calls, historyVars >>

\* _configure_structlog: stdlib_logger.propagate = False
CfgPropagate(t) ==
    /\ pc[t] = "cfg_propagate"
    /\ loggers' = [loggers EXCEPT ![cur[t].logger_name].propagate = FALSE]
    /\ Goto(t, "cfg_default")
    /\ UNCHANGED << lock, factoryVars, structlogCfg, handlerObjs, fs, environ,
                    imported, op, arg, localVars, result, calls, historyVars >>

\* _configure_structlog: cls._default_logger = structlog.get_logger(name)
\* Mutant of CfgDefaultLogger: a default logger already cached is kept.
CfgDefaultLoggerCached(t) ==
    /\ pc[t] = "cfg_default"
    /\ default_logger' = IF default_logger # NoneVal
                         THEN default_logger
                         ELSE GetStructlogLogger(cur[t].logger_name)
    /\ Goto(t, "cfg_flag")
    /\ UNCHANGED << lock, configured, config, configOwner, backendVars, environ, imported,
                    op, arg, localVars, result, calls, historyVars >>

CfgDefaultLogger(t) ==
    /\ pc[t] = "cfg_default"
    /\ default_logger' = GetStructlogLogger(cur[t].logger_name)
    /\ Goto(t, "cfg_flag")
    /\ UNCHANGED << lock, configured, config, configOwner, backendVars, environ, imported,
                    op, arg, localVars, result, calls, historyVars >>

\* cls._configured = True
CfgFlag(t) ==
    /\ pc[t] = "cfg_flag"
    /\ configured' = TRUE
    /\ Goto(t, "cfg_release")
    /\ UNCHANGED << lock, config, configOwner, default_logger, backendVars, environ,
                    imported, op, arg, localVars, result, calls, historyVars >>

\* configure returns: the with block releases the lock.  The import is
\* over, an explicit call returns None, get_default_logger goes on.
CfgRelease(t) ==
    /\ pc[t] = "cfg_release"
    /\ lock' = ReleaseOnReturn(t)
    /\ snap' = Snapshot
    /\ imported' = (imported \/ op[t] = "import")
    /\ IF op[t] \in {"get_default_logger", "get_logger"}
       THEN /\ Goto(t, "gdl_test")
            /\ cur' = [cur EXCEPT ![t] = NoneVal]
            /\ newHandler' = [newHandler EXCEPT ![t] = 0]
            /\ nImplicit' = nImplicit + 1
            /\ UNCHANGED result
       ELSE /\ EndCall(t, Returned(NoneVal))
            /\ UNCHANGED nImplicit
    /\ UNCHANGED << factoryVars, backendVars, environ, op, arg, calls >>

\* configure raises: the with block releases the lock and the exception
\* reaches the caller (through get_default_logger too).
CfgUnwind(t) ==
    /\ pc[t] = "cfg_unwind"
    /\ lock' = ReleaseOnException(t)
    /\ snap' = Snapshot
    /\ EndCall(t, result[t])
    /\ UNCHANGED << factoryVars, backendVars, environ, imported, op, arg,
                    calls, nImplicit >>

\* -------------------------------------------------------------------- reset

\* `with cls._lock:` of reset
RstAcquire(t) ==
    /\ pc[t] = "rst_acquire"
    /\ CanAcquire
    /\ lock' = t
    /\ snap' = Snapshot
    /\ Goto(t, "rst_clear")
    /\ UNCHANGED << factoryVars, backendVars, environ, imported, op, arg,
                    localVars, result, calls, nImplicit >>

\* if cls._config: logging.getLogger(cls._config.logger_name).handlers.clear()
RstClear(t) ==
    /\ pc[t] = "rst_clear"
    /\ loggers' = IF config # NoneVal
                  THEN [loggers EXCEPT ![config.logger_name].handlers = <<>>]
                  ELSE loggers
    /\ Goto(t, "rst_flag")
    /\ UNCHANGED << lock, factoryVars, structlogCfg, handlerObjs, fs, environ,
                    imported, op, arg, localVars, result, calls, historyVars >>

\* Mutant of RstFlag: the configured flag is left raised.
RstFlagKept(t) ==
    /\ pc[t] = "rst_flag"
    /\ nImplicit' = 0
    /\ Goto(t, "rst_config")
    /\ UNCHANGED << lock, factoryVars, backendVars, environ,
                    imported, op, arg, localVars, result, calls, snap >>

\* cls._configured = False
RstFlag(t) ==
    /\ pc[t] = "rst_flag"
    /\ configured' = FALSE
    /\ nImplicit' = 0
    /\ Goto(t, "rst_config")
    /\ UNCHANGED << lock, config, configOwner, default_logger, backendVars, environ,
                    imported, op, arg, localVars, result, calls, snap >>

\* cls._config = None
RstConfig(t) ==
    /\ pc[t] = "rst_config"
    /\ config' = NoneVal
    /\ configOwner' = 0
    /\ Goto(t, "rst_default")
    /\ UNCHANGED << lock, configured, default_logger, backendVars, environ,
                    imported, op, arg, localVars, result, calls, historyVars >>

\* Mutant of RstDefaultLogger: the cached default logger is kept.
RstDefaultLoggerKept(t) ==
    /\ pc[t] = "rst_default"
    /\ Goto(t, "rst_structlog")
    /\ UNCHANGED << lock, factoryVars, backendVars, environ, imported,
                    op, arg, localVars, result, calls, historyVars >>

\* cls._default_logger = None
RstDefaultLogger(t) ==
    /\ pc[t] = "rst_default"
    /\ default_logger' = NoneVal
    /\ Goto(t, "rst_structlog")
    /\ UNCHANGED << lock, configured, config, configOwner, backendVars, environ, imported,
                    op, arg, localVars, result, calls, historyVars >>

\* structlog.reset_defaults()
RstStructlog(t) ==
    /\ pc[t] = "rst_structlog"
    /\ structlogCfg' = StructlogDefaults
    /\ Goto(t, "rst_release")
    /\ UNCHANGED << lock, factoryVars, loggers, handlerObjs, fs, environ,
                    imported, op, arg, localVars, result, calls, historyVars >>

\* reset returns: the with block releases the lock
RstRelease(t) ==
    /\ pc[t] = "rst_release"
    /\ lock' = ReleaseOnReturn(t)
    /\ snap' = Snapshot
    /\ EndCall(t, Returned(NoneVal))
    /\ UNCHANGED << factoryVars, backendVars, environ, imported, op, arg,
                    calls, nImplicit >>

\* ------------------------------------------------------- get_default_logger

\* if not cls._configured: cls.configure()
GdlCheck(t) ==
    /\ pc[t] = "gdl_check"
    /\ Goto(t, IF ~configured THEN "cfg_acquire" ELSE "gdl_test")
    /\ UNCHANGED << lock, factoryVars, backendVars, environ, imported, op, arg,
                    localVars, result, calls, historyVars >>

\* if cls._default_logger is None: raise RuntimeError(...)
GdlTest(t) ==
    /\ pc[t] = "gdl_test"
    /\ IF default_logger = NoneVal
       THEN EndCall(t, Raised([type |-> "RuntimeError",
                               msg |-> "Logger not properly configured"]))
       ELSE /\ Goto(t, "gdl_return")
            /\ UNCHANGED << localVars, result >>
    /\ UNCHANGED << lock, factoryVars, backendVars, environ, imported, op, arg,
                    calls, historyVars >>

\* return cls._default_logger: the attribute is loaded again
GdlReturn(t) ==
    /\ pc[t] = "gdl_return"
    /\ EndCall(t, Returned(default_logger))
    /\ UNCHANGED << lock, factoryVars, backendVars, environ, imported, op, arg,
                    calls, historyVars >>

\* ------------------------------------------------------------ specification

\* A thread or the application starts something.
Call(t) ==
    \/ \E c \in Configs \cup {NoneVal} : CallConfigure(t, c)
    \/ CallReset(t)
    \/ CallGetDefaultLogger(t)
    \/ GetConfig(t)

\* A thread takes the factory lock.
Acquire(t) ==
    \/ CfgAcquire(t)
    \/ RstAcquire(t)

\* A thread runs the next step of the call it is in, the lock apart.
Step(t) ==
    \/ (t = 1 /\ ImportLoadEnv)
    \/ CfgResolve(t)
    \/ CfgStore(t)
    \/ CfgStructlog(t)
    \/ CfgSetLevel(t)
    \/ CfgOpenSink(t)
    \/ CfgClear(t)
    \/ CfgAddHandler(t)
    \/ CfgPropagate(t)
    \/ CfgDefaultLogger(t)
    \/ CfgFlag(t)
    \/ CfgRelease(t)
    \/ CfgUnwind(t)
    \/ RstClear(t)
    \/ RstFlag(t)
    \/ RstConfig(t)
    \/ RstDefaultLogger(t)
    \/ RstStructlog(t)
    \/ RstRelease(t)
    \/ GdlCheck(t)
    \/ GdlTest(t)
    \/ GdlReturn(t)

\* handlers.clear() (in _configure_structlog and in reset) only drops the
\* logger's references: the code never calls close() on a handler.  A
\* FileHandler that no logger and no running configure() refers to any more
\* is garbage, and its stream is closed whenever the interpreter finalizes
\* it: at once, later, or not before the process ends.
Referenced(i) ==
    \/ \E n \in LoggerNames : \E k \in DOMAIN loggers[n].handlers :
          loggers[n].handlers[k] = i
    \/ \E t \in Threads : newHandler[t] = i

FinalizeHandler(i) ==
    /\ handlerObjs[i].kind = "FileHandler"
    /\ handlerObjs[i].open
    /\ ~Referenced(i)
    /\ handlerObjs' = [handlerObjs EXCEPT ![i].open = FALSE]
    /\ UNCHANGED << lock, factoryVars, structlogCfg, loggers, fs, environ,
                    imported, pc, op, arg, localVars, result, calls,
                    historyVars >>

Next ==
    \/ \E e \in Envs : SetEnv(e)
    \/ \E i \in DOMAIN handlerObjs : FinalizeHandler(i)
    \/ \E t \in Threads : Call(t) \/ Acquire(t) \/ Step(t)

Spec == Init /\ [][Next]_vars

\* Fair scheduling: a thread that can run its next step eventually runs it,
\* and a thread waiting for the lock gets it if the lock is free again and
\* again.  Callers are not obliged to call.
FairSpec ==
    /\ Spec
    /\ \A t \in Threads : WF_vars(Step(t)) /\ SF_vars(Acquire(t))

----------------------------------------------------------------------------
\* Callers that build a LoggingConfig themselves may pass more than the
\* configs above: a log file under a directory that cannot be created, and
\* a config that from_env would have refused.  The dataclass constructor
\* checks nothing.

S_ro_d_x_log == <<"r","o","/","d","/","x",".","l","o","g">>

CfgNoParent == MkConfig("INFO", "console", "file", S_ro_d_x_log, FALSE, S_logs)
CfgUnchecked == MkConfig("INFO", "console", "stdout", <<>>, FALSE, S_logs)

MoreConfigs == {CfgNoParent, CfgUnchecked}

WideNext ==
    \/ Next
    \/ \E t \in Threads, c \in MoreConfigs : CallConfigure(t, c)

WideSpec == Init /\ [][WideNext]_vars

----------------------------------------------------------------------------
\* Emitting a record.  get_logger(name) is structlog.get_logger(name); with
\* the configuration structlog.configure installed, a bound logger hands the
\* rendered event to logging.getLogger(name), which drops it below its
\* effective level and passes it to its handlers otherwise.  The root logger
\* has no handlers, so propagation adds none.  With structlog's defaults the
\* event is printed by a PrintLogger and reaches no handler.

EmitLevels == DOMAIN LogLevelMap

\* logging.Logger.getEffectiveLevel: NOTSET defers to the root logger, which
\* is at WARNING.
\* logging.getLogger(n): a name the factory never configured gets a logger
\* with no level and no handlers.
StdlibLogger(n) == IF n \in DOMAIN loggers THEN loggers[n] ELSE NewStdlibLogger

EffectiveLevel(n) ==
    IF StdlibLogger(n).level # 0 THEN StdlibLogger(n).level
    ELSE LogLevelMap["WARNING"]

\* Mutant of Delivered: the logger passes every record on, whatever its
\* level.
DeliveredUnfiltered(n, lv) ==
    {StdlibLogger(n).handlers[k] : k \in DOMAIN StdlibLogger(n).handlers}

\* The handlers a record of severity lv reaches through logging.getLogger(n).
Delivered(n, lv) ==
    IF LogLevelMap[lv] < EffectiveLevel(n) THEN {}
    ELSE {StdlibLogger(n).handlers[k] : k \in DOMAIN StdlibLogger(n).handlers}

Receivers(n, lv) ==
    IF structlogCfg.logger_factory # "stdlib.LoggerFactory" THEN {}
    ELSE Delivered(n, lv)

\* get_logger(n).log(lv, ...)
Emit(t, n, lv) ==
    /\ CanCall(t)
    /\ op' = [op EXCEPT ![t] = "emit"]
    /\ arg' = [arg EXCEPT ![t] = [name |-> n, level |-> lv]]
    /\ result' = [result EXCEPT ![t] = Returned([sinks |-> Receivers(n, lv)])]
    /\ calls' = calls + 1
    /\ UNCHANGED << lock, factoryVars, backendVars, environ, imported, pc,
                    localVars, historyVars >>

S_my_module == <<"m","y","_","m","o","d","u","l","e">>
S_api       == <<"a","p","i">>

\* The names callers ask loggers for, the empty string among them, and the
\* tags they pass to get_handler_logger.
CallerNames == LoggerNames \cup {<<>>, S_my_module}
Tags        == {S_api}

\* get_logger(name): `if name:` is false for None and for the empty string,
\* and the call then goes on as get_default_logger().
GetLogger(t, n) ==
    /\ CanCall(t)
    /\ op' = [op EXCEPT ![t] = "get_logger"]
    /\ calls' = calls + 1
    /\ IF n # <<>>
       THEN /\ arg' = [arg EXCEPT ![t] = [name |-> n]]
            /\ result' = [result EXCEPT ![t] = Returned(GetStructlogLogger(n))]
            /\ UNCHANGED pc
       ELSE /\ arg' = [arg EXCEPT ![t] = NoneVal]
            /\ result' = [result EXCEPT ![t] = NoResult]
            /\ Goto(t, "gdl_check")
    /\ UNCHANGED << lock, factoryVars, backendVars, environ, imported,
                    localVars, historyVars >>

\* replace_stdlib_logger(logger_name)
ReplaceStdlibLogger(t, n) ==
    /\ CanCall(t)
    /\ op' = [op EXCEPT ![t] = "replace_stdlib_logger"]
    /\ arg' = [arg EXCEPT ![t] = [name |-> n]]
    /\ result' = [result EXCEPT ![t] = Returned(GetStructlogLogger(n))]
    /\ calls' = calls + 1
    /\ UNCHANGED << lock, factoryVars, backendVars, environ, imported, pc,
                    localVars, historyVars >>

\* structlog.get_logger(name).bind(handler=tag): bind assembles the logger
\* from the structlog configuration in force at that moment, so the handle
\* keeps that logger factory; an unbound handle resolves it at first use.
Bind(name, tag) ==
    [name |-> name, bound |-> [handler |-> tag],
     factory |-> structlogCfg.logger_factory]

\* get_handler_logger(handler_name)
GetHandlerLogger(t, tag) ==
    /\ CanCall(t)
    /\ op' = [op EXCEPT ![t] = "get_handler_logger"]
    /\ arg' = [arg EXCEPT ![t] = [tag |-> tag]]
    /\ LET logger_name == IF config # NoneVal THEN config.logger_name
                          ELSE S_logs
       IN  result' = [result EXCEPT ![t] = Returned(Bind(logger_name, tag))]
    /\ calls' = calls + 1
    /\ UNCHANGED << lock, factoryVars, backendVars, environ, imported, pc,
                    localVars, historyVars >>

\* The handle a thread's last call returned, if it returned one.
HoldsHandle(t) ==
    /\ op[t] \in {"get_logger", "replace_stdlib_logger", "get_handler_logger",
                  "get_default_logger"}
    /\ pc[t] = "idle"
    /\ result[t].status = "returned"
    /\ result[t].value # NoneVal

ReceiversVia(h, lv) ==
    LET f == IF "factory" \in DOMAIN h THEN h.factory
             ELSE structlogCfg.logger_factory
    IN  IF f # "stdlib.LoggerFactory" THEN {} ELSE Delivered(h.name, lv)

\* handle.log(lv, ...) on the handle the thread holds: the record carries the
\* fields bound to the handle.
EmitVia(t, lv) ==
    /\ CanCall(t)
    /\ HoldsHandle(t)
    /\ op' = [op EXCEPT ![t] = "emit_via"]
    /\ arg' = [arg EXCEPT ![t] = [handle |-> result[t].value, level |-> lv]]
    /\ result' = [result EXCEPT ![t] =
                    Returned([sinks |-> ReceiversVia(result[t].value, lv),
                              fields |-> result[t].value.bound])]
    /\ calls' = calls + 1
    /\ UNCHANGED << lock, factoryVars, backendVars, environ, imported, pc,
                    localVars, historyVars >>

EmitNext ==
    \/ Next
    \/ \E t \in Threads, n \in LoggerNames, lv \in EmitLevels : Emit(t, n, lv)
    \/ \E t \in Threads, n \in CallerNames : GetLogger(t, n)
    \/ \E t \in Threads, n \in CallerNames : ReplaceStdlibLogger(t, n)
    \/ \E t \in Threads, tag \in Tags : GetHandlerLogger(t, tag)
    \/ \E t \in Threads, lv \in EmitLevels : EmitVia(t, lv)

EmitSpec == Init /\ [][EmitNext]_vars

----------------------------------------------------------------------------
\* LoggingConfig is a plain dataclass, not a frozen one, and configure()
\* stores the caller's object itself.  A caller whose configure(cfg) has
\* returned assigns another logger name to its cfg: the factory's _config
\* changes with it when it is that same object.

MutateCfg(t, n) ==
    /\ CanCall(t)
    /\ op[t] = "configure"
    /\ arg[t] # NoneVal
    /\ result[t].status = "returned"
    /\ n # arg[t].logger_name
    /\ arg' = [arg EXCEPT ![t].logger_name = n]
    /\ config' = IF configOwner = t
                 THEN [config EXCEPT !.logger_name = n]
                 ELSE config
    /\ calls' = calls + 1
    /\ UNCHANGED << lock, configured, configOwner, default_logger,
                    backendVars, environ, imported, pc, op, localVars,
                    result, historyVars >>

AliasNext ==
    \/ Next
    \/ \E t \in Threads, n \in LoggerNames : MutateCfg(t, n)
    \/ \E t \in Threads, tag \in Tags : GetHandlerLogger(t, tag)

AliasSpec == Init /\ [][AliasNext]_vars

----------------------------------------------------------------------------
\* LoggerFactory.load_environment_variables(env) with a dictionary of the
\* caller's.  It takes no lock.  arg[t] is the caller's dictionary, which
\* the call updates in place, and cur[t] is the local original_env.

EnvDicts ==
    { [LOGGING_INCLUDE_LOCATION |-> <<"n","o">>],
      [PROFILE |-> S_dev] }

CallLoadEnv(t, env) ==
    /\ CanCall(t)
    /\ Goto(t, "lev_copy")
    /\ op' = [op EXCEPT ![t] = "load_environment_variables"]
    /\ arg' = [arg EXCEPT ![t] = env]
    /\ result' = [result EXCEPT ![t] = NoResult]
    /\ calls' = calls + 1
    /\ UNCHANGED << lock, factoryVars, backendVars, environ, imported,
                    localVars, historyVars >>

\* original_env = os.environ.copy()
LevCopy(t) ==
    /\ pc[t] = "lev_copy"
    /\ cur' = [cur EXCEPT ![t] = environ]
    /\ Goto(t, "lev_shared")
    /\ UNCHANGED << lock, factoryVars, backendVars, environ, imported, op, arg,
                    newHandler, result, calls, historyVars >>

\* The three files in the order of the source, and where the call goes on
\* after each.
LevStages == {"lev_shared", "lev_env", "lev_profile"}

LevPath(t) ==
    IF pc[t] = "lev_shared" THEN S_env_shared
    ELSE IF pc[t] = "lev_env" THEN S_env
    ELSE S_env_dot \o EnvGet(arg[t], "PROFILE",
                             EnvGet(cur[t], "PROFILE", S_NONE))

LevAfter(stage) ==
    IF stage = "lev_shared" THEN "lev_env"
    ELSE IF stage = "lev_env" THEN "lev_profile"
    ELSE "lev_clear"

\* if os.path.exists(path): load_dotenv(path, override=False)
LevLoad(t) ==
    /\ pc[t] \in LevStages
    /\ IF /\ PathExists(fs, LevPath(t))
          /\ pc[t] = "lev_profile" => LevPath(t) # S_env_dot \o S_NONE
       THEN /\ environ' = LoadDotenv(LevPath(t), environ)
            /\ Goto(t, pc[t] \o "_merge")
       ELSE /\ Goto(t, LevAfter(pc[t]))
            /\ UNCHANGED environ
    /\ UNCHANGED << lock, factoryVars, backendVars, imported, op, arg,
                    localVars, result, calls, historyVars >>

\* for key, value in os.environ.items(): if key not in env: env[key] = value
\* (the loop is taken as one step: it reads os.environ as it is when the loop
\* begins)
LevMerge(t) ==
    /\ \E stage \in LevStages :
          /\ pc[t] = stage \o "_merge"
          /\ Goto(t, LevAfter(stage))
    /\ arg' = [arg EXCEPT ![t] =
                 [k \in DOMAIN arg[t] \cup DOMAIN environ |->
                    IF k \in DOMAIN arg[t] THEN arg[t][k] ELSE environ[k]]]
    /\ UNCHANGED << lock, factoryVars, backendVars, environ, imported, op,
                    localVars, result, calls, historyVars >>

\* Mutant of LevClear: os.environ is not emptied before it is restored.
LevClearSkipped(t) ==
    /\ pc[t] = "lev_clear"
    /\ Goto(t, "lev_update")
    /\ UNCHANGED << lock, factoryVars, backendVars, environ, imported, op, arg,
                    localVars, result, calls, historyVars >>

\* os.environ.clear()
LevClear(t) ==
    /\ pc[t] = "lev_clear"
    /\ environ' = EmptyEnv
    /\ Goto(t, "lev_update")
    /\ UNCHANGED << lock, factoryVars, backendVars, imported, op, arg,
                    localVars, result, calls, historyVars >>

\* os.environ.update(original_env), and the call returns None
LevUpdate(t) ==
    /\ pc[t] = "lev_update"
    /\ environ' = [k \in DOMAIN cur[t] \cup DOMAIN environ |->
                     IF k \in DOMAIN cur[t] THEN cur[t][k] ELSE environ[k]]
    /\ EndCall(t, Returned(NoneVal))
    /\ UNCHANGED << lock, factoryVars, backendVars, imported, op, arg, calls,
                    historyVars >>

LoadEnvStep(t) ==
    \/ LevCopy(t)
    \/ LevLoad(t)
    \/ LevMerge(t)
    \/ LevClear(t)
    \/ LevUpdate(t)

\* The factory's callers also call load_environment_variables(env), from any
\* thread.
LoadEnvNext ==
    \/ Next
    \/ \E t \in Threads, env \in EnvDicts : CallLoadEnv(t, env)
    \/ \E t \in Threads : LoadEnvStep(t)

LoadEnvSpec == Init /\ [][LoadEnvNext]_vars

\* The same program run by one thread at a time: a call, or a change of the
\* environment, begins only when no call is running.
AllIdle == \A t \in Threads : pc[t] = "idle"

SeqNext ==
    \/ AllIdle /\ \E e \in Envs : SetEnv(e)
    \/ AllIdle /\ \E t \in Threads : Call(t)
    \/ AllIdle /\ \E t \in Threads, env \in EnvDicts : CallLoadEnv(t, env)
    \/ \E t \in Threads : Acquire(t) \/ Step(t) \/ LoadEnvStep(t)
    \/ \E i \in DOMAIN handlerObjs : FinalizeHandler(i)

SeqSpec == Init /\ [][SeqNext]_vars

----------------------------------------------------------------------------
\* LoggingConfig.from_env(env) called with a mapping of the caller's.  It
\* reads nothing but its argument and touches no state of the factory.

\* The values tried for each variable: absent, or the text raw.  want and ok
\* say what the documentation of the variable makes of it.
Case(absent, raw, ok, want) ==
    [absent |-> absent, raw |-> raw, ok |-> ok, want |-> want]

LevelCases ==
    { Case(TRUE, <<>>, TRUE, "DEBUG"),
      Case(FALSE, <<"d","e","b","u","g">>, TRUE, "DEBUG"),
      Case(FALSE, <<"I","n","f","o">>, TRUE, "INFO"),
      Case(FALSE, <<"W","A","R","N","I","N","G">>, TRUE, "WARNING"),
      Case(FALSE, <<"e","R","R","o","R">>, TRUE, "ERROR"),
      Case(FALSE, <<"c","r","i","t","i","c","a","l">>, TRUE, "CRITICAL"),
      Case(FALSE, <<"v","e","r","b","o","s","e">>, FALSE, ""),
      Case(FALSE, <<>>, FALSE, "") }

FormatCases ==
    { Case(TRUE, <<>>, TRUE, "console"),
      Case(FALSE, <<"c","o","n","s","o","l","e">>, TRUE, "console"),
      Case(FALSE, <<"J","S","O","N">>, TRUE, "json"),
      Case(FALSE, <<"x","m","l">>, FALSE, "") }

OutputCases ==
    { Case(TRUE, <<>>, TRUE, "stdout"),
      Case(FALSE, <<"s","t","d","o","u","t">>, TRUE, "stdout"),
      Case(FALSE, <<"F","i","l","e">>, TRUE, "file"),
      Case(FALSE, <<"s","y","s","l","o","g">>, FALSE, "") }

PathOfLen(n) == [i \in 1..n |-> "p"]

PathCases ==
    { Case(TRUE, <<>>, TRUE, S_app_log),
      Case(FALSE, <<>>, FALSE, <<>>),
      Case(FALSE, PathOfLen(1), TRUE, PathOfLen(1)),
      Case(FALSE, S_out_log, TRUE, S_out_log),
      Case(FALSE, PathOfLen(4096), TRUE, PathOfLen(4096)),
      Case(FALSE, PathOfLen(4097), FALSE, <<>>) }

IncludeCases ==
    { Case(TRUE, <<>>, TRUE, FALSE),
      Case(FALSE, <<"t","r","u","e">>, TRUE, TRUE),
      Case(FALSE, <<"T","R","U","E">>, TRUE, TRUE),
      Case(FALSE, <<"1">>, TRUE, TRUE),
      Case(FALSE, <<"Y","e","s">>, TRUE, TRUE),
      Case(FALSE, <<"f","a","l","s","e">>, TRUE, FALSE),
      Case(FALSE, <<"o","n">>, TRUE, FALSE),
      Case(FALSE, <<>>, TRUE, FALSE) }

NameCases ==
    { Case(TRUE, <<>>, TRUE, S_logs),
      Case(FALSE, <<"A","p","p">>, TRUE, <<"A","p","p">>),
      Case(FALSE, <<>>, FALSE, <<>>) }

Entry(key, c) == IF c.absent THEN EmptyEnv ELSE (key :> c.raw)

EnvInputs ==
    { Entry("LOGGING_LEVEL", l) @@ Entry("LOGGING_FORMAT", f)
        @@ Entry("LOGGING_OUTPUT", o) @@ Entry("LOGGING_FILE_PATH", p)
        @@ Entry("LOGGING_INCLUDE_LOCATION", i)
        @@ Entry("LOGGING_LOGGER_NAME", n) :
      l \in LevelCases, f \in FormatCases, o \in OutputCases,
      p \in PathCases, i \in IncludeCases, n \in NameCases }

\* The first thread is about to call from_env with one of the mappings.
EnvInit ==
    /\ lock = 0
    /\ configured = FALSE
    /\ config = NoneVal
    /\ configOwner = 0
    /\ default_logger = NoneVal
    /\ structlogCfg = StructlogDefaults
    /\ loggers = [n \in LoggerNames |-> NewStdlibLogger]
    /\ handlerObjs = <<>>
    /\ fs = (S_env :> "file") @@ (S_env_dot \o S_dev :> "file")
            @@ (S_logdir :> "dir") @@ (S_ro :> "rodir")
    /\ environ = EmptyEnv
    /\ imported = FALSE
    /\ pc = [t \in Threads |-> IF t = 1 THEN "from_env" ELSE "idle"]
    /\ op = [t \in Threads |-> IF t = 1 THEN "from_env" ELSE "none"]
    /\ arg \in {[t \in Threads |-> IF t = 1 THEN e ELSE NoneVal] :
                   e \in EnvInputs}
    /\ cur = [t \in Threads |-> NoneVal]
    /\ newHandler = [t \in Threads |-> 0]
    /\ result = [t \in Threads |-> NoResult]
    /\ calls = 0
    /\ snap = Snapshot
    /\ nImplicit = 0

\* LoggingConfig.from_env(arg[t]) returns the config or raises.
FromEnvCall(t) ==
    /\ pc[t] = "from_env"
    /\ LET r == FromEnv(arg[t])
       IN  result' = [result EXCEPT ![t] =
                        IF r.ok THEN Returned(r.cfg) ELSE Raised(r.exc)]
    /\ pc' = [pc EXCEPT ![t] = "idle"]
    /\ UNCHANGED << lock, factoryVars, backendVars, environ, imported, op,
                    arg, localVars, calls, historyVars >>

EnvNext == \E t \in Threads : FromEnvCall(t)

EnvSpec == EnvInit /\ [][EnvNext]_vars

\* --------------------------------------------------------------- properties

\* The labels at which a thread runs the body of a `with cls._lock` block.
ConfigureBody == { "cfg_resolve", "cfg_store", "cfg_structlog", "cfg_setlevel",
                   "cfg_sink", "cfg_clear", "cfg_add", "cfg_propagate",
                   "cfg_default", "cfg_flag", "cfg_release", "cfg_unwind" }

ResetBody == { "rst_clear", "rst_flag", "rst_config", "rst_default",
               "rst_structlog", "rst_release" }

InBody(t) == pc[t] \in ConfigureBody \cup ResetBody

\* Thread t's last call was o and is over.
Finished(t, o) == op[t] = o /\ pc[t] = "idle" /\ result[t].status # "none"

\* C1 (as claimed): when a configure call has failed (its exception is on its
\* way out of the with block, nothing more will be written), get_config()
\* returns what it returned when the call took the lock.
C1_FailedConfigureKeepsConfig ==
    \A t \in Threads :
        (pc[t] = "cfg_unwind" /\ op[t] = "configure" /\ arg[t] # NoneVal) =>
            config = snap.config

\* C2 (as claimed): when configure(new) has failed over an active
\* configuration old, structlog's pipeline and the level, handlers and
\* propagate flag of the logger named old.logger_name are those of old.
C2_FailedConfigureKeepsWiring ==
    \A t \in Threads :
        (pc[t] = "cfg_unwind" /\ snap.configured /\ snap.config # NoneVal) =>
            /\ structlogCfg = snap.structlogCfg
            /\ loggers[snap.config.logger_name]
                   = snap.loggers[snap.config.logger_name]

\* C3: a configure call that fails never sets the configured flag: while its
\* exception unwinds the flag is what it was when the call took the lock; the
\* call then ends by raising to its caller (explicit configure, import, or
\* get_default_logger), the flag still unchanged; and a get_default_logger
\* that finds the flag false goes into configure() again.
C3_FailedConfigureLeavesFlag ==
    [][\A t \in Threads :
        /\ pc'[t] = "cfg_unwind" => configured' = snap'.configured
        /\ (pc[t] = "cfg_unwind" /\ pc'[t] # "cfg_unwind") =>
              /\ pc'[t] = "idle"
              /\ result'[t].status = "raised"
              /\ configured' = snap.configured
        /\ (pc[t] = "gdl_check" /\ pc'[t] # "gdl_check" /\ ~configured) =>
              pc'[t] = "cfg_acquire"]_vars

\* C3 witness: a get_default_logger call on an unconfigured factory ended
\* with the error of its implicit configure(), the factory still unconfigured.
C3_Witness ==
    \E t \in Threads :
        /\ Finished(t, "get_default_logger")
        /\ result[t].status = "raised"
        /\ result[t].value.type = "ValueError"
        /\ ~configured
        /\ lock = 0

\* C4: at most one thread is inside the body of configure or reset, it is
\* the thread holding the lock, and every write to _config, _configured,
\* _default_logger or to a logger's level and handler list is a step of that
\* thread.
C4_MutualExclusion ==
    /\ [](\A t, u \in Threads :
            /\ (InBody(t) /\ InBody(u)) => t = u
            /\ InBody(t) => lock = t)
    /\ [][(factoryVars' # factoryVars \/ loggers' # loggers) =>
            (lock # 0 /\ InBody(lock) /\ pc'[lock] # pc[lock])]_vars

\* C4 witness: one thread is inside configure while another waits for the
\* lock to reset.
C4_Witness ==
    \E t, u \in Threads :
        t # u /\ pc[t] \in ConfigureBody /\ pc[u] = "rst_acquire"

\* C5: the lock is held only by a thread inside a configure or reset body,
\* so it is free once the call has returned or raised; and under fair
\* scheduling every thread that is in a call (waiting for the lock included)
\* comes back from it.
C5_LockReleasedAndCallsComplete ==
    /\ [](\A t \in Threads : lock = t => InBody(t))
    /\ \A t \in Threads : [](pc[t] # "idle" => <>(pc[t] = "idle"))

\* C5 witness: a configure call of one thread has raised, and afterwards
\* another thread holds the lock.
C5_Witness ==
    \E t, u \in Threads :
        /\ t # u
        /\ Finished(t, "configure")
        /\ result[t].status = "raised"
        /\ lock = u
        /\ InBody(u)

\* The configurations whose sink can be opened in the file system as it is.
ValidConfigs == {c \in Configs : OpenSink(c, fs).ok}

\* Every thread has made exactly one call, configure(c), and nothing else
\* was called since the import.
AllConfigured(c) ==
    /\ calls = NThreads
    /\ \A t \in Threads : Finished(t, "configure") /\ arg[t] = c

\* C6: after every thread has run configure(c) once with the same valid c
\* and all are back, none has raised, the factory is configured with c, and
\* the logger named c.logger_name has exactly one handler, an open one of
\* the kind c asks for.
C6_ConcurrentConfigureOneSink ==
    \A c \in ValidConfigs :
        AllConfigured(c) =>
            /\ \A t \in Threads : result[t] = Returned(NoneVal)
            /\ configured
            /\ config = c
            /\ default_logger = GetStructlogLogger(c.logger_name)
            /\ Len(loggers[c.logger_name].handlers) = 1
            /\ LET h == handlerObjs[loggers[c.logger_name].handlers[1]]
               IN  /\ h.open
                   /\ h.kind = IF c.output = "file" THEN "FileHandler"
                               ELSE "StreamHandler"

\* C6 witness: all threads are back from configure(c) for a valid c that
\* writes to a file.
C6_Witness ==
    \E c \in ValidConfigs : c.output = "file" /\ AllConfigured(c)

\* C7 (as claimed): between two resets at most one implicit configure(),
\* the one get_default_logger makes, runs to completion.
C7_ImplicitConfigureOnce == nImplicit <= 1

\* C8 (as claimed): a get_default_logger call never ends with "Logger not
\* properly configured" and never returns None.
C8_DefaultLoggerNeverNull ==
    \A t \in Threads :
        Finished(t, "get_default_logger") =>
            /\ result[t].status = "raised" =>
                   result[t].value.msg # "Logger not properly configured"
            /\ result[t].status = "returned" => result[t].value # NoneVal

\* What get_config() may return at this moment if it returns one whole
\* snapshot: the config in place when the running configure or reset took
\* the lock, the config that configure is installing, or None under a reset.
WholeSnapshots ==
    IF lock = 0 THEN {config}
    ELSE IF pc[lock] \in ResetBody THEN {snap.config, NoneVal}
    ELSE {snap.config, cur[lock]}

\* C9: every get_config() call, whatever configure or reset is running
\* beside it, returns exactly the old configuration, exactly the new one,
\* or None.
C9_GetConfigWholeSnapshot ==
    [][\A t \in Threads : GetConfig(t) => result'[t].value \in WholeSnapshots]_vars

\* C9 witness: get_config() has returned the new configuration of a
\* configure call that is still running over a different old configuration.
C9_Witness ==
    \E t, u \in Threads :
        /\ t # u
        /\ Finished(t, "get_config")
        /\ pc[u] \in ConfigureBody
        /\ snap.config # NoneVal
        /\ cur[u] # snap.config
        /\ result[t].value = cur[u]

\* C10 (as claimed): whenever the configured flag is false, get_config()
\* returns None.
C10_UnconfiguredMeansNoConfig ==
    (imported /\ ~configured) => config = NoneVal

\* C11: when reset() has run its body, get_config() returns None, the
\* configured flag is false, the cached default logger is None and structlog
\* is back at its defaults; a get_default_logger() that finds the flag false
\* enters configure() with no config, which resolves a fresh one from the
\* environment; and when that configure() is through, the factory is
\* configured with the resolved config, its default logger and one handler.
C11_ResetThenLazyConfigure ==
    /\ [](\A t \in Threads :
            /\ pc[t] = "rst_release" =>
                  /\ config = NoneVal
                  /\ ~configured
                  /\ default_logger = NoneVal
                  /\ structlogCfg = StructlogDefaults
            /\ (op[t] = "get_default_logger" /\ pc[t] = "cfg_release") =>
                  /\ configured
                  /\ config = cur[t]
                  /\ config # NoneVal
                  /\ default_logger = GetStructlogLogger(config.logger_name)
                  /\ loggers[config.logger_name].handlers = <<newHandler[t]>>)
    /\ [][\A t \in Threads :
            /\ (pc[t] = "gdl_check" /\ pc'[t] # "gdl_check" /\ ~configured) =>
                  (pc'[t] = "cfg_acquire" /\ arg'[t] = NoneVal)
            /\ (op[t] = "get_default_logger" /\ pc[t] = "cfg_resolve"
                /\ pc'[t] = "cfg_store") =>
                  cur'[t] = FromEnv(environ').cfg]_vars

\* C11 witness: after a reset, a get_default_logger() call has configured
\* the factory again and returned the default logger.
C11_Witness ==
    \E t \in Threads :
        /\ Finished(t, "get_default_logger")
        /\ result[t].status = "returned"
        /\ result[t].value = default_logger
        /\ default_logger # NoneVal
        /\ nImplicit = 1
        /\ configured
        /\ lock = 0

\* C12: a reset() entered on an unconfigured factory leaves the factory
\* state, structlog and every logger's handler list as they were when it
\* took the lock.
C12_ResetIdempotent ==
    \A t \in Threads :
        (pc[t] = "rst_release" /\ ~snap.configured) =>
            /\ configured = snap.configured
            /\ config = snap.config
            /\ default_logger = snap.default_logger
            /\ structlogCfg = snap.structlogCfg
            /\ \A n \in LoggerNames :
                  loggers[n].handlers = snap.loggers[n].handlers

\* C13: when reset() has run its body on a factory that was configured with
\* output=file, the file handlers that were attached to the configured
\* logger are detached from it and closed, and no FileHandler the factory
\* created is still open.
C13_ResetClosesFileSink ==
    \A t \in Threads :
        (pc[t] = "rst_release" /\ snap.configured /\ snap.config # NoneVal
         /\ snap.config.output = "file") =>
            /\ \A k \in DOMAIN snap.loggers[snap.config.logger_name].handlers :
                  LET i == snap.loggers[snap.config.logger_name].handlers[k]
                  IN  handlerObjs[i].kind = "FileHandler" =>
                          /\ ~Referenced(i)
                          /\ ~handlerObjs[i].open
            /\ \A i \in DOMAIN handlerObjs :
                  handlerObjs[i].kind = "FileHandler" => ~handlerObjs[i].open

\* C14: while every configure() so far has succeeded and none is running,
\* the logger named by the latest config has exactly one handler, and a
\* record emitted through any logger name reaches no handler but that one.
C14_NoStaleSinkReceives ==
    /\ [](( /\ lock = 0
            /\ configured
            /\ \A u \in Threads : result[u].status # "raised") =>
              Len(loggers[config.logger_name].handlers) = 1)
    /\ [][\A t \in Threads, n \in LoggerNames, lv \in EmitLevels :
            ( /\ Emit(t, n, lv)
              /\ lock = 0
              /\ configured
              /\ \A u \in Threads : result[u].status # "raised") =>
                result'[t].value.sinks \subseteq
                    {loggers[config.logger_name].handlers[1]}]_vars

\* C15: when a configure(c) is through, the factory is configured, its
\* config is c and its default logger is the one made for c.logger_name;
\* while the lock is free these stay as the last holder left them; and
\* get_config() and get_default_logger() return what the factory holds.
C15_LastConfigureWins ==
    /\ [](\A t \in Threads :
            (pc[t] = "cfg_release" /\ op[t] = "configure" /\ arg[t] # NoneVal) =>
                /\ configured
                /\ config = arg[t]
                /\ default_logger = GetStructlogLogger(arg[t].logger_name))
    /\ [](lock = 0 =>
            /\ configured = snap.configured
            /\ config = snap.config
            /\ default_logger = snap.default_logger)
    /\ [][\A t \in Threads :
            /\ GetConfig(t) => result'[t] = Returned(config)
            /\ (pc[t] = "gdl_return" /\ pc'[t] = "idle") =>
                  result'[t] = Returned(default_logger)]_vars

\* C15 witness: configure(c2) is through on a factory that an earlier
\* configure(c1), with another config and logger name, had configured.
C15_Witness ==
    \E t, u \in Threads :
        /\ pc[t] = "cfg_release" /\ op[t] = "configure" /\ arg[t] # NoneVal
        /\ Finished(u, "configure") /\ result[u].status = "returned"
        /\ arg[u] # NoneVal
        /\ snap.configured
        /\ snap.config = arg[u]
        /\ snap.default_logger = GetStructlogLogger(arg[u].logger_name)
        /\ arg[u].logger_name # arg[t].logger_name
        /\ config = arg[t]

\* ------------------------------------------------------------ from_env

\* The case a mapping holds for a variable.
CaseOf(cases, env, key) ==
    CHOOSE c \in cases :
        IF key \in DOMAIN env THEN ~c.absent /\ c.raw = env[key] ELSE c.absent

LevelOf(env)   == CaseOf(LevelCases, env, "LOGGING_LEVEL")
FormatOf(env)  == CaseOf(FormatCases, env, "LOGGING_FORMAT")
OutputOf(env)  == CaseOf(OutputCases, env, "LOGGING_OUTPUT")
PathOf(env)    == CaseOf(PathCases, env, "LOGGING_FILE_PATH")
IncludeOf(env) == CaseOf(IncludeCases, env, "LOGGING_INCLUDE_LOCATION")
NameOf(env)    == CaseOf(NameCases, env, "LOGGING_LOGGER_NAME")

AllValid(env) ==
    /\ LevelOf(env).ok /\ FormatOf(env).ok /\ OutputOf(env).ok
    /\ PathOf(env).ok /\ NameOf(env).ok

ValueError(msg) == Raised([type |-> "ValueError", msg |-> msg])

\* C16: for a mapping whose values are all valid, from_env returns the config
\* with the level upper-cased, format and output lower-cased, file_path and
\* logger_name as given, and the default for every absent key.
C16_FromEnvNormalizes ==
    \A t \in Threads :
        (Finished(t, "from_env") /\ AllValid(arg[t])) =>
            result[t] = Returned(
                [level |-> LevelOf(arg[t]).want,
                 format |-> FormatOf(arg[t]).want,
                 output |-> OutputOf(arg[t]).want,
                 file_path |-> PathOf(arg[t]).want,
                 include_location |-> IncludeOf(arg[t]).want,
                 logger_name |-> NameOf(arg[t]).want])

\* C16 witness: from_env has returned for a mapping with a mixed-case level
\* and format, a mixed-case logger name and no output.
C16_Witness ==
    \E t \in Threads :
        /\ Finished(t, "from_env") /\ AllValid(arg[t])
        /\ result[t].status = "returned"
        /\ "LOGGING_LEVEL" \in DOMAIN arg[t]
        /\ arg[t]["LOGGING_LEVEL"] = <<"I","n","f","o">>
        /\ "LOGGING_FORMAT" \in DOMAIN arg[t]
        /\ arg[t]["LOGGING_FORMAT"] = <<"J","S","O","N">>
        /\ "LOGGING_OUTPUT" \notin DOMAIN arg[t]
        /\ "LOGGING_LOGGER_NAME" \in DOMAIN arg[t]
        /\ result[t].value.level = "INFO"
        /\ result[t].value.output = "stdout"

\* C17: an unrecognized LOGGING_LEVEL, LOGGING_FORMAT or LOGGING_OUTPUT makes
\* from_env raise a ValueError and return no config; the error names the
\* variable, the variables checked before it being valid.
C17_InvalidEnumRaises ==
    \A t \in Threads :
        Finished(t, "from_env") =>
            LET l == LevelOf(arg[t]).ok
                f == FormatOf(arg[t]).ok
                o == OutputOf(arg[t]).ok
            IN  /\ ~(l /\ f /\ o) =>
                      /\ result[t].status = "raised"
                      /\ result[t].value.type = "ValueError"
                /\ ~l => result[t] = ValueError("Invalid LOGGING_LEVEL")
                /\ (l /\ ~f) => result[t] = ValueError("Invalid LOGGING_FORMAT")
                /\ (l /\ f /\ ~o) =>
                      result[t] = ValueError("Invalid LOGGING_OUTPUT")

\* C17 witness: from_env has raised for an unknown output, level and format
\* being valid.
C17_Witness ==
    \E t \in Threads :
        /\ Finished(t, "from_env")
        /\ LevelOf(arg[t]).ok /\ FormatOf(arg[t]).ok /\ ~OutputOf(arg[t]).ok
        /\ result[t].status = "raised"

\* The message of the first violated constraint, in the order level, format,
\* output, file path, logger name.
FirstViolation(env) ==
    IF ~LevelOf(env).ok THEN "Invalid LOGGING_LEVEL"
    ELSE IF ~FormatOf(env).ok THEN "Invalid LOGGING_FORMAT"
    ELSE IF ~OutputOf(env).ok THEN "Invalid LOGGING_OUTPUT"
    ELSE IF ~PathOf(env).ok
         THEN IF PathOf(env).raw = <<>>
              THEN "LOGGING_FILE_PATH must be a non-empty string"
              ELSE "LOGGING_FILE_PATH is too long"
    ELSE "LOGGING_LOGGER_NAME must be a non-empty string"

\* C18: a mapping that violates constraints makes from_env raise the error of
\* the first violated one in the order level, format, output, file path,
\* logger name.
C18_FirstViolationReported ==
    \A t \in Threads :
        (Finished(t, "from_env") /\ ~AllValid(arg[t])) =>
            result[t] = ValueError(FirstViolation(arg[t]))

\* C18 witness: from_env has raised for a mapping whose format, file path and
\* logger name are all invalid.
C18_Witness ==
    \E t \in Threads :
        /\ Finished(t, "from_env")
        /\ LevelOf(arg[t]).ok /\ ~FormatOf(arg[t]).ok /\ OutputOf(arg[t]).ok
        /\ ~PathOf(arg[t]).ok /\ ~NameOf(arg[t]).ok
        /\ result[t].status = "raised"

\* C19: the other variables being valid, from_env returns exactly when
\* LOGGING_FILE_PATH is absent or 1 to 4096 characters long, whatever
\* LOGGING_OUTPUT is, and raises the file-path error otherwise; a path that
\* is empty or longer never lets from_env return.
C19_FilePathLength ==
    \A t \in Threads :
        Finished(t, "from_env") =>
            LET env == arg[t]
                given == "LOGGING_FILE_PATH" \in DOMAIN env
                n == IF given THEN Len(env["LOGGING_FILE_PATH"]) ELSE 0
                accepted == ~given \/ (1 <= n /\ n <= 4096)
            IN  /\ ~accepted => result[t].status = "raised"
                /\ ( /\ LevelOf(env).ok /\ FormatOf(env).ok
                     /\ OutputOf(env).ok /\ NameOf(env).ok ) =>
                      /\ result[t].status = "returned" <=> accepted
                      /\ accepted =>
                            result[t].value.file_path =
                                IF given THEN env["LOGGING_FILE_PATH"]
                                ELSE S_app_log
                      /\ (~accepted /\ n = 0) => result[t] = ValueError(
                            "LOGGING_FILE_PATH must be a non-empty string")
                      /\ (~accepted /\ n > 4096) => result[t] = ValueError(
                            "LOGGING_FILE_PATH is too long")

\* C19 witness: from_env has returned for a path of 4096 characters with the
\* output stdout.
C19_Witness ==
    \E t \in Threads :
        /\ Finished(t, "from_env")
        /\ "LOGGING_FILE_PATH" \in DOMAIN arg[t]
        /\ Len(arg[t]["LOGGING_FILE_PATH"]) = 4096
        /\ result[t].status = "returned"
        /\ result[t].value.output = "stdout"

\* C20: include_location is true exactly for 'true', '1' and 'yes' in any
\* case and false for every other value and for an absent key, and from_env
\* returns whatever the value is, the other variables being valid.
C20_IncludeLocation ==
    \A t \in Threads :
        Finished(t, "from_env") =>
            /\ AllValid(arg[t]) => result[t].status = "returned"
            /\ result[t].status = "returned" =>
                  result[t].value.include_location = IncludeOf(arg[t]).want
            /\ result[t].status = "raised" =>
                  result[t] = ValueError(FirstViolation(arg[t]))

\* C20 witness: from_env has returned with include_location true for the
\* value 'Yes'.
C20_Witness ==
    \E t \in Threads :
        /\ Finished(t, "from_env")
        /\ "LOGGING_INCLUDE_LOCATION" \in DOMAIN arg[t]
        /\ arg[t]["LOGGING_INCLUDE_LOCATION"] = <<"Y","e","s">>
        /\ result[t].status = "returned"
        /\ result[t].value.include_location

\* ------------------------------------------------------------ accessors

\* The name a get_logger call was given: the empty one when the call went on
\* as get_default_logger().
GivenName(t) == IF arg[t] = NoneVal THEN <<>> ELSE arg[t].name

\* C21: get_logger(name) with any string name returns the handle bound to
\* that name, never enters configure(), and leaves the configured flag, the
\* config and the cached default logger as they were.
C21_GetLoggerByName ==
    /\ [](\A t \in Threads :
            /\ Finished(t, "get_logger") =>
                  result[t] = Returned(GetStructlogLogger(GivenName(t)))
            /\ op[t] = "get_logger" => ~(pc[t] \in ConfigureBody))
    /\ [][\A t \in Threads :
            (op'[t] = "get_logger"
             /\ (pc'[t] # pc[t] \/ result'[t] # result[t])) =>
                factoryVars' = factoryVars]_vars

\* C22: get_handler_logger(tag) returns a handle bound to the config's logger
\* name on a configured factory and to 'logs' on an unconfigured one, with
\* handler=tag bound; a record emitted through the handle carries that field;
\* the call leaves the factory as it was.  The call is taken while no
\* configure() or reset() is running.
C22_HandlerLoggerBinding ==
    [][\A t \in Threads :
        /\ \A tag \in Tags :
              (GetHandlerLogger(t, tag) /\ lock = 0) =>
                  /\ result'[t].status = "returned"
                  /\ result'[t].value.name =
                        IF configured THEN config.logger_name ELSE S_logs
                  /\ result'[t].value.bound = [handler |-> tag]
                  /\ factoryVars' = factoryVars
                  /\ backendVars' = backendVars
        /\ \A lv \in EmitLevels :
              (EmitVia(t, lv) /\ op[t] = "get_handler_logger") =>
                  /\ "handler" \in DOMAIN result'[t].value.fields
                  /\ result'[t].value.fields.handler = arg[t].tag]_vars

\* C23: from every state and for every name, get_logger(name) does what
\* replace_stdlib_logger(name) does: it returns the handle bound to the name
\* at once and changes nothing else.
C23_ReplaceEqualsGetLogger ==
    [][\A t \in Threads, n \in CallerNames :
        GetLogger(t, n) =>
            /\ result'[t] = Returned(GetStructlogLogger(n))
            /\ << lock, factoryVars, backendVars, environ, imported, pc,
                  localVars, historyVars >>' =
               << lock, factoryVars, backendVars, environ, imported, pc,
                  localVars, historyVars >>]_vars

\* ------------------------------------------------------------ file sinks

\* The directories above a path.
Ancestors(p) == {SubSeq(p, 1, i - 1) : i \in {j \in DOMAIN p : p[j] = "/"}}

\* The path is new and lies under a directory nothing can be created in.
OSFailure(files, p) ==
    /\ ~PathExists(files, p)
    /\ \E a \in Ancestors(p) : PathExists(files, a) /\ files[a] = "rodir"

\* C24: configure() with output=file raises ValueError when the path is an
\* existing directory and RuntimeError when the parent directories cannot be
\* created or the file cannot be opened, and succeeds otherwise; when it has
\* failed, every logger still has the handlers it had when configure() took
\* the lock and no new handler exists.
C24_FileSinkErrors ==
    /\ [](\A t \in Threads :
            (pc[t] = "cfg_unwind" /\ cur[t] # NoneVal) =>
                /\ result[t].status = "raised"
                /\ newHandler[t] = 0
                /\ \A n \in LoggerNames :
                      loggers[n].handlers = snap.loggers[n].handlers)
    /\ [][\A t \in Threads :
            (pc[t] = "cfg_sink" /\ pc'[t] # "cfg_sink"
             /\ cur[t].output = "file") =>
                LET p == cur[t].file_path
                IN  /\ IsDir(fs, p) =>
                          /\ pc'[t] = "cfg_unwind"
                          /\ result'[t].value.type = "ValueError"
                          /\ handlerObjs' = handlerObjs
                    /\ (~IsDir(fs, p) /\ OSFailure(fs, p)) =>
                          /\ pc'[t] = "cfg_unwind"
                          /\ result'[t].value.type = "RuntimeError"
                          /\ handlerObjs' = handlerObjs
                    /\ (~IsDir(fs, p) /\ ~OSFailure(fs, p)) =>
                          pc'[t] = "cfg_clear"]_vars

\* C24 witness: a configure() whose log directory cannot be created has
\* raised RuntimeError on a factory whose logger had a handler.
C24_Witness ==
    \E t \in Threads :
        /\ pc[t] = "cfg_unwind"
        /\ cur[t] = CfgNoParent
        /\ result[t].status = "raised"
        /\ result[t].value.type = "RuntimeError"
        /\ snap.loggers[cur[t].logger_name].handlers # <<>>
        /\ loggers[cur[t].logger_name].handlers # <<>>

\* The constraints from_env enforces, on a config.
ValidConfig(c) ==
    /\ c.level \in DOMAIN LogLevelMap
    /\ c.format \in {"console", "json"}
    /\ c.output \in {"stdout", "file"}
    /\ 1 <= Len(c.file_path) /\ Len(c.file_path) <= 4096
    /\ c.logger_name # <<>>

\* C25: whenever no configure() or reset() is running, get_config() is None
\* or a config that satisfies every validation constraint.
C25_ConfigAlwaysValid ==
    lock = 0 => (config = NoneVal \/ ValidConfig(config))

\* C26: once the module is imported and before any caller has called
\* anything, the configured flag is false and get_config() returns None.
C26_StartsUnconfigured ==
    (imported /\ calls = 0) => (~configured /\ config = NoneVal)

\* ------------------------------------------------------------ severity

\* DEBUG < INFO < WARNING < ERROR < CRITICAL
Severity == << "DEBUG", "INFO", "WARNING", "ERROR", "CRITICAL" >>
Rank(lv) == CHOOSE i \in DOMAIN Severity : Severity[i] = lv

\* The factory holds a config whose sink can be made and no configure() or
\* reset() is running: the last configure() succeeded and nothing has
\* touched the factory since.
SettledOn(c) ==
    /\ lock = 0
    /\ configured
    /\ config = c
    /\ c # NoneVal
    /\ OpenSink(c, fs).ok

\* C27: a record emitted through the default logger of a factory settled on
\* a config with level L reaches the logger's one handler when its severity
\* is L or above, and no handler when it is below.
C27_LevelFilter ==
    [][\A t \in Threads, lv \in EmitLevels :
        ( /\ EmitVia(t, lv)
          /\ SettledOn(config)
          /\ result[t].value = default_logger ) =>
            /\ Len(loggers[config.logger_name].handlers) = 1
            /\ result'[t].value.sinks =
                  IF Rank(lv) >= Rank(config.level)
                  THEN {loggers[config.logger_name].handlers[1]}
                  ELSE {}]_vars

\* C27 witness: on a factory configured at INFO, a record of severity INFO
\* emitted through the default logger has reached the sink.
C27_Witness ==
    \E t \in Threads :
        /\ Finished(t, "emit_via")
        /\ SettledOn(config)
        /\ config.level = "INFO"
        /\ arg[t].handle = default_logger
        /\ arg[t].level = "INFO"
        /\ result[t].value.sinks # {}

----------------------------------------------------------------------------
\* The labels of a running load_environment_variables(env).
LevBody == { "lev_copy", "lev_shared", "lev_shared_merge", "lev_env",
             "lev_env_merge", "lev_profile", "lev_profile_merge",
             "lev_clear", "lev_update" }

\* original_env is taken and os.environ has not been emptied yet.
LevLoading == LevBody \ {"lev_copy", "lev_update"}

\* C28: run by one thread at a time, load_environment_variables(env) with a
\* dictionary of the caller's keeps the value of every key env already
\* had, so env can only gain keys; while the files are loaded os.environ
\* keeps every variable it had with its value, when the call returns
\* os.environ is again what the call found, and the call touches nothing
\* else (the factory, the logging backend, the files).
C28_LoadEnvFrame ==
    [][\A t \in Threads :
          /\ LoadEnvStep(t) =>
                /\ \A k \in DOMAIN arg[t] :
                      k \in DOMAIN arg'[t] /\ arg'[t][k] = arg[t][k]
                /\ UNCHANGED << lock, factoryVars, backendVars >>
          /\ (pc[t] = "lev_copy" /\ pc'[t] \in LevLoading) => cur'[t] = environ
          /\ pc'[t] \in LevLoading =>
                \A k \in DOMAIN cur'[t] :
                   k \in DOMAIN environ' /\ environ'[k] = cur'[t][k]
          /\ LevUpdate(t) => environ' = cur[t]]_vars

\* A call with PROFILE=dev has returned: env gained the variables of .env
\* and of .env.dev, and os.environ, which held neither when the call began,
\* holds neither now.
C28_Witness ==
    \E t \in Threads :
       /\ Finished(t, "load_environment_variables")
       /\ "PROFILE" \in DOMAIN arg[t] /\ arg[t]["PROFILE"] = S_dev
       /\ "LOGGING_LOGGER_NAME" \in DOMAIN arg[t]
       /\ "LOGGING_INCLUDE_LOCATION" \in DOMAIN arg[t]
       /\ "LOGGING_LOGGER_NAME" \notin DOMAIN environ
       /\ "LOGGING_INCLUDE_LOCATION" \notin DOMAIN environ

\* C29: the isolation holds with several threads: no step of a running
\* load_environment_variables(env) takes out of os.environ, where another
\* thread would miss it, a variable that was set when the call began, and
\* once no such call is running os.environ holds no variable that only a
\* call's profile file defines (the application never sets
\* LOGGING_LOGGER_NAME, and the import loads no profile file).
C29_IsolationUnderConcurrency ==
    [][/\ \A t \in Threads :
            (LoadEnvStep(t) /\ pc[t] # "lev_copy") =>
               \A k \in DOMAIN cur[t] \cap DOMAIN environ :
                  k \in DOMAIN environ'
       /\ (\A t \in Threads : pc'[t] \notin LevBody) =>
             "LOGGING_LOGGER_NAME" \notin DOMAIN environ']_vars

\* C30: an implicit configure(), the one get_default_logger() runs, never
\* stores its configuration over one that an explicit configure(cfg) has
\* installed and returned from: when the implicit call stores, the factory
\* is not configured with such a cfg.
C30_ImplicitKeepsExplicit ==
    [][\A u \in Threads :
          (CfgStore(u) /\ op[u] = "get_default_logger") =>
             ~ \E t \in Threads \ {u} :
                  /\ Finished(t, "configure")
                  /\ result[t].status = "returned"
                  /\ arg[t] # NoneVal
                  /\ configured
                  /\ config = arg[t]]_vars

----------------------------------------------------------------------------
\* C31: in every state of every interleaving of configure() and reset(),
\* failing and repeated calls included, a raised configured flag comes with
\* a configuration and a cached default logger, neither of them None.
C31_ConfiguredMeansComplete ==
    configured => (config # NoneVal /\ default_logger # NoneVal)

\* A configure() over a configured factory has failed and is about to
\* release the lock: the flag is still raised, the failed call's
\* configuration is the current one and the old default logger is cached.
C31_Witness ==
    \E t \in Threads :
       /\ op[t] = "configure"
       /\ pc[t] = "cfg_unwind"
       /\ result[t].status = "raised"
       /\ configured
       /\ config = arg[t]
       /\ default_logger # NoneVal

\* C32: the factory holds a snapshot of the configuration: when a caller
\* changes its cfg object after configure(cfg) has returned, the factory's
\* configuration, which get_config() returns and whose logger name
\* get_handler_logger() and reset() use, stays as it was.
C32_ConfigIsSnapshot ==
    [][\A t \in Threads, n \in LoggerNames :
          MutateCfg(t, n) => config' = config]_vars

\* C33: when reset() returns, no logger the factory configured since the
\* reset before it has a handler of the factory's attached, whatever logger
\* names the configure() calls in between used.  The factory is the only
\* one to attach handlers, so no logger has a handler at all.
C33_ResetDetachesAll ==
    [][\A t \in Threads :
          RstRelease(t) =>
             \A n \in DOMAIN loggers : loggers'[n].handlers = <<>>]_vars
====
